---- MODULE Spec2Model ----
(***************************************************************************)
(* A model of the reactive tag tree of web/components/html.py: Tag nodes   *)
(* with observed attributes, a proxy (renderer) per Tag, the structural    *)
(* handlers child_added / child_moved / child_removed, prepare / render,   *)
(* and the Html root whose `modified` event receives the change records.   *)
(*                                                                         *)
(* One step of the model is one call made by the application: an attribute *)
(* assignment, deletion or read, insert_children, set_parent(None),        *)
(* prepare or render.  The call runs to completion (the code is            *)
(* synchronous), so every handler it triggers is part of the same step.    *)
(* xpath is a call as well.                                                *)
(*                                                                         *)
(* The attributes are atom members.  A member holds no value until it is   *)
(* assigned or read for the first time, and none again after del: the      *)
(* first assignment or read is a change of type 'create', an assignment of *)
(* a different value to a member that holds one is a change of type        *)
(* 'update'.                                                               *)
(***************************************************************************)
EXTENDS Integers, Sequences, FiniteSets, TLC

\* ------------------------------------------------------------------------
\* The objects of the model.  A node's name is also the value of its `id`.
\* ------------------------------------------------------------------------

\* Instances of class Html (the Document).  There are two, so that one can
\* be inserted below the other or below a plain Tag.
Html == {"D", "C"}

\* Instances of Tag, instances of its subclasses included.
Tag == Html \cup {"A", "B"}

\* Children that are Declarative objects but not Tags (pattern nodes).
Pattern == {"L"}

Object == Tag \cup Pattern

\* "No object": the parent of a root, the `before` of an append.
NoNode == "none"

\* The attribute values of the model: the default of a Str() member and one
\* other string.
Values == {"", "x"}

\* Number of calls the application makes after construction.
MaxOps == 2

\* Two of the attributes Tag._update_proxy observes: one for which the
\* renderer has a setter of its own, one that goes through set_attribute.
ObservedNames == {"text", "alt"}

\* Instances of the concrete tag type Bdo, which declares the attribute
\* dir and has no observer of its own.
Bdo == {"B"}

\* The attributes a node declares: those of Tag and those of its own class.
DeclaredNames(n) == IF n \in Bdo THEN ObservedNames \cup {"dir"} ELSE ObservedNames

\* A variant of Observed whose list has the attribute text only.
ObservedTextOnly(n, name) == name = "text"

\* The attribute is in the @observe list of an _update_proxy of the node's
\* class: the list of Tag, which every class inherits.
Observed(n, name) == name \in ObservedNames

DefaultAttrs(n) == [k \in DeclaredNames(n) |-> ""]

\* The proxy classes an application can bind: the ProxyTag of html.py and a
\* renderer that implements the whole capability contract.
ProxyClasses == {"ProxyTag", "WebComponent"}

VARIABLES
    proxy_class,        \* the proxy class the application's toolkit creates
    parent,             \* Object._parent
    children,           \* Object._children, a sequence per node
    is_initialized,     \* Declarative.is_initialized
    proxy_is_active,    \* ToolkitObject.proxy_is_active
    attrs,              \* the attribute values of each Tag, as a read returns them
    has_value,          \* per Tag and attribute: the member holds a value
    pattrs,             \* the attribute state held by each Tag's proxy
    op,                 \* the call made in the last step, with its inputs
    initialized,        \* nodes whose initialize() ran in the last step
    activated,          \* nodes whose activate_proxy() ran in the last step
    notified,           \* changes passed to _notify_modified in the last step
    modified,           \* changes delivered to each Html's modified event
    error,              \* the exception the last call raised, or "none"
    prepared,           \* Tags on which prepare() or render() has been called
    n_initialize,       \* how often initialize() has run on each node
    n_activate,         \* how often activate_proxy() has run on each Tag
    removed_from,       \* per Tag, the Html whose tree it was last removed from
    trace,              \* what _update_proxy called in the last step, in order
    failed,             \* a call has raised an exception since start-up
    stream,             \* per Html, all the changes its modified event fired with
    steps               \* number of calls made so far

vars == <<proxy_class, parent, children, is_initialized, proxy_is_active,
          attrs, has_value, pattrs, op, initialized, activated, notified, modified, error,
          prepared, n_initialize, n_activate, removed_from, trace,
          failed, stream, steps>>

\* One more call, while the budget of calls lasts.
Step == steps < MaxOps /\ steps' = steps + 1

\* How the call ends: the exception it raises, if any, which is remembered.
Raises(err) == error' = err /\ failed' = (failed \/ err # "none")

\* ------------------------------------------------------------------------
\* Tree helpers
\* ------------------------------------------------------------------------

RECURSIVE root_object(_, _)
root_object(self, par) ==
    IF par[self] = NoNode THEN self ELSE root_object(par[self], par)

RECURSIVE Ancestors(_, _)
Ancestors(self, par) ==
    IF par[self] = NoNode THEN {} ELSE {par[self]} \cup Ancestors(par[self], par)

Index(kids, child) == CHOOSE i \in 1..Len(kids) : kids[i] = child

Without(kids, child) == SelectSeq(kids, LAMBDA c : c # child)

\* Object.insert_children(before, [child]) on the children list: the child is
\* taken out if present, then put in front of `before`, or at the end.
InsertBefore(kids, before, child) ==
    LET rest == Without(kids, child) IN
    IF before = NoNode
    THEN Append(rest, child)
    ELSE LET i == Index(rest, before) IN
         SubSeq(rest, 1, i - 1) \o <<child>> \o SubSeq(rest, i, Len(rest))

\* Declarative.initialize: the node and, recursively, all its children.
RECURSIVE InitializeSet(_, _)
InitializeSet(self, kids) ==
    {self} \cup UNION {InitializeSet(kids[self][i], kids) : i \in 1..Len(kids[self])}

\* A variant of ActivateSet that does not go down to the children.
ActivateSetSelfOnly(self, kids) == {self}

\* ToolkitObject.activate_proxy: the node and, recursively, its children
\* that are ToolkitObjects; the children of a pattern node are not visited.
RECURSIVE ActivateSet(_, _)
ActivateSet(self, kids) ==
    {self} \cup UNION {ActivateSet(kids[self][i], kids) :
                         i \in {j \in 1..Len(kids[self]) : kids[self][j] \in Tag}}


\* ------------------------------------------------------------------------
\* The proxy (renderer)
\* ------------------------------------------------------------------------

\* getattr(self.proxy, 'set_' + name, None) is not None.  ProxyTag defines
\* no setter; the full renderer has one for the well-known attribute text.
HasSetter(cls, name) == cls = "WebComponent" /\ name = "text"

\* The proxy has the generic fallback set_attribute(name, value).
HasSetAttribute(cls) == cls = "WebComponent"

\* The proxy has child_moved(child_proxy).
HasChildMoved(cls) == cls = "WebComponent"

\* A variant of RenderError in which a proxy without render() returns
\* quietly.
RenderErrorQuiet(cls) == "none"

\* ProxyTag.render raises NotImplementedError.
RenderError(cls) == IF cls = "ProxyTag" THEN "NotImplementedError" ELSE "none"

\* ProxyTag.xpath raises NotImplementedError.
XpathError(cls) == IF cls = "ProxyTag" THEN "NotImplementedError" ELSE "none"

\* The markup proxy.render() returns: the node with the attribute state its
\* proxy holds and the markup of its Tag children, in order.
RECURSIVE Markup(_, _, _)
Markup(self, kids, pa) ==
    LET tags == SelectSeq(kids[self], LAMBDA c : c \in Tag) IN
    [id |-> self, attrs |-> pa[self],
     children |-> [i \in 1..Len(tags) |-> Markup(tags[i], kids, pa)]]

\* The attribute state of the proxies after activate_proxy() ran on `set`:
\* a renderer that keeps state reads it from its declaration.
ActivatePattrs(cls, set, at, pa) ==
    IF cls = "WebComponent"
    THEN [n \in Tag |-> IF n \in set THEN at[n] ELSE pa[n]]
    ELSE pa

\* The members that hold a value after activate_proxy() ran on `set`: the
\* renderer that keeps state has read every attribute of the declarations
\* it activated, and a read gives a member its default value; ProxyTag reads
\* none.
ActivateReads(cls, set, hv) ==
    IF cls = "WebComponent"
    THEN [n \in Tag |-> IF n \in set THEN [k \in DeclaredNames(n) |-> TRUE] ELSE hv[n]]
    ELSE hv

\* ------------------------------------------------------------------------
\* Change records
\* ------------------------------------------------------------------------

\* A variant of NotifyModified that fires the event of every Html.
NotifyModifiedEveryHtml(self, changes, par) == [h \in Html |-> changes]

\* The Html closest to the node on its way up, the node included.
RECURSIVE NearestHtml(_, _)
NearestHtml(self, par) ==
    IF self \in Html THEN self
    ELSE IF par[self] = NoNode THEN NoNode
    ELSE NearestHtml(par[self], par)

\* A variant of NotifyModified that stops at the first Html on the way up.
NotifyModifiedNearestHtml(self, changes, par) ==
    [h \in Html |-> IF NearestHtml(self, par) = h THEN changes ELSE <<>>]

\* Tag._notify_modified: the changes reach root.modified when the root of
\* the tree is an Html, and nobody otherwise.
NotifyModified(self, changes, par) ==
    [h \in Html |-> IF root_object(self, par) = h THEN changes ELSE <<>>]

\* A variant of Fire that puts the change in front of the earlier ones.
FireInFront(seen, changes) == changes \o seen

\* root.modified(change): the observers of the event are called with the
\* change, after all the changes they were called with before.
Fire(seen, changes) == seen \o changes

\* A call that hands `changes` to self._notify_modified: what each Html's
\* event fires with in this call, and in all calls so far.
Notifies(self, changes, par) ==
    /\ modified' = NotifyModified(self, changes, par)
    /\ stream' = [h \in Html |-> Fire(stream[h], NotifyModified(self, changes, par)[h])]

\* A variant of UpdateChange that reports the value the attribute had before
\* the assignment.
UpdateChangeOldValue(self, t, name, value) ==
    [id |-> self, type |-> t, name |-> name, value |-> attrs[self][name]]

\* The body of Tag._update_proxy once the change passed its test: the
\* change it hands to _notify_modified.
UpdateChange(self, t, name, value) ==
    [id |-> self, type |-> t, name |-> name, value |-> value]

\* A variant of UpdateHandled without the proxy_is_active test.
UpdateHandledAlways(self, t, active) == t = "update"

\* A variant of UpdateHandled without the test of the change's type.
UpdateHandledAnyType(self, t, active) == active[self]

\* The test of Tag._update_proxy.
UpdateHandled(self, t, active) == t = "update" /\ active[self]

\* A variant of ScanBefore that takes the next sibling whatever its type.
ScanBeforeNoSkip(kids, i) == IF i > Len(kids) THEN NoNode ELSE kids[i]

\* The anchor loop of child_added and child_moved: from position i on, the
\* first child that is a Tag; pattern nodes are passed over.
RECURSIVE ScanBefore(_, _)
ScanBefore(kids, i) ==
    IF i > Len(kids) THEN NoNode
    ELSE IF kids[i] \in Tag THEN kids[i]
    ELSE ScanBefore(kids, i + 1)

\* i = children.index(child) + 1, then the loop.
Before(kids, child) == ScanBefore(kids, Index(kids, child) + 1)

\* change['before'] = c.id, set only when a following Tag exists.
WithBefore(change, kids, child) ==
    IF Before(kids, child) = NoNode THEN change
    ELSE [id |-> change.id, type |-> change.type, name |-> change.name,
          value |-> change.value, before |-> Before(kids, child)]

\* A variant of StructuralHandled without the proxy_is_active test.
StructuralHandledInactive(self, child, active) == child \in Tag

\* The test shared by Tag.child_added, child_moved and child_removed.
StructuralHandled(self, child, active) == child \in Tag /\ active[self]

\* A variant of MoveReported that ignores what the proxy's child_moved
\* returned.
MoveReportedIgnoringResult(self, child, active, ok) ==
    StructuralHandled(self, child, active)

\* A variant of MoveReported without the isinstance(child, Tag) test.
MoveReportedAnyChild(self, child, active, ok) == active[self] /\ ok

\* The two tests of Tag.child_moved: the shared one, then the value the
\* proxy's child_moved returned.
MoveReported(self, child, active, ok) ==
    StructuralHandled(self, child, active) /\ ok

\* A variant of AddedChange that puts the child's id in the id field.
AddedChangeChildId(self, child, markup) ==
    [id |-> child, type |-> "added", name |-> "children", value |-> markup]

\* A variant of AddedChange whose value is the markup of the parent.
AddedChangeParentMarkup(self, child, markup) ==
    [id |-> self, type |-> "added", name |-> "children",
     value |-> Markup(self, children, pattrs)]

\* The change dict Tag.child_added builds before the anchor is resolved.
AddedChange(self, child, markup) ==
    [id |-> self, type |-> "added", name |-> "children", value |-> markup]

\* A variant of MovedChange whose value is the parent's id.
MovedChangeParentValue(self, child) ==
    [id |-> self, type |-> "moved", name |-> "children", value |-> self]

\* The change dict Tag.child_moved builds before the anchor is resolved.
MovedChange(self, child) ==
    [id |-> self, type |-> "moved", name |-> "children", value |-> child]

\* A variant of RemovedChange whose value is the parent's id.
RemovedChangeParentValue(self, child) ==
    [id |-> self, type |-> "removed", name |-> "children", value |-> self]

\* The change dict Tag.child_removed builds.
RemovedChange(self, child) ==
    [id |-> self, type |-> "removed", name |-> "children", value |-> child]


\* ------------------------------------------------------------------------
\* setattr(tag, name, value)
\* ------------------------------------------------------------------------

\* A variant of UpdateError in which a missing set_attribute goes unnoticed.
UpdateErrorAbsorbed(cls, name) == "none"

\* The exception _update_proxy raises: the proxy has neither set_<name> nor
\* set_attribute.
UpdateError(cls, name) ==
    IF HasSetter(cls, name) \/ HasSetAttribute(cls) THEN "none" ELSE "AttributeError"

\* handler = getattr(self.proxy, 'set_' + name, None), then handler(value)
\* or self.proxy.set_attribute(name, value): the one call made on the proxy.
ProxyCall(cls, name, value) ==
    IF HasSetter(cls, name)
    THEN [call |-> "set_" \o name, args |-> <<value>>]
    ELSE [call |-> "set_attribute", args |-> <<name, value>>]

\* The call of _notify_modified, as an entry of the trace.
NotifyCall(change) == [call |-> "_notify_modified", args |-> <<change>>]

\* A variant of UpdateCalls that notifies first and calls the proxy after.
UpdateCallsNotifyFirst(self, cls, t, name, value) ==
    <<NotifyCall(UpdateChange(self, t, name, value)),
      ProxyCall(cls, name, value)>>

\* The calls Tag._update_proxy makes for a change that passed its test, in
\* the order it makes them: the proxy, then _notify_modified.
UpdateCalls(self, cls, t, name, value) ==
    <<ProxyCall(cls, name, value),
      NotifyCall(UpdateChange(self, t, name, value))>>

\* The observer is not called: the proxy stays as it is.
NoChange(pa) ==
    [pattrs |-> pa, notified |-> <<>>, trace |-> <<>>, error |-> "none"]

\* One call of the observer _update_proxy with a change of type t: the new
\* state of the proxy, the changes handed to _notify_modified, the calls
\* made, and the exception.
Observer(self, t, name, value, pa) ==
    LET handled == Observed(self, name) /\ UpdateHandled(self, t, proxy_is_active)
        err == IF handled THEN UpdateError(proxy_class, name) ELSE "none"
    IN [pattrs |-> IF handled /\ err = "none"
                   THEN [pa EXCEPT ![self][name] = value] ELSE pa,
        notified |-> IF handled /\ err = "none"
                     THEN <<UpdateChange(self, t, name, value)>> ELSE <<>>,
        trace |-> IF handled /\ err = "none"
                  THEN UpdateCalls(self, proxy_class, t, name, value) ELSE <<>>,
        error |-> err]

\* A variant of ChangeType in which every assignment of a different value
\* is an 'update', whether the member held a value or not.
ChangeTypeUpdateOnly(held, old, value) ==
    IF old # value THEN "update" ELSE "none"

\* change['type'] of the change the observer gets for an assignment:
\* 'create' when the member holds no value, 'update' when it holds a value
\* other than the one assigned; the observer is not called when the member
\* holds the value assigned.
ChangeType(held, old, value) ==
    IF ~held THEN "create"
    ELSE IF old # value THEN "update"
    ELSE "none"

\* A variant of Setattr that leaves the proxy alone when the root of the
\* tree is not an Html.
SetattrProxyUnderHtmlOnly(self, name, value, at, pa, hv) ==
    LET t == ChangeType(hv[self][name], at[self][name], value)
        o == IF t = "none" THEN NoChange(pa) ELSE Observer(self, t, name, value, pa)
    IN [attrs |-> [at EXCEPT ![self][name] = value],
        has_value |-> [hv EXCEPT ![self][name] = TRUE],
        pattrs |-> IF root_object(self, parent) \in Html THEN o.pattrs ELSE pa,
        notified |-> o.notified,
        trace |-> o.trace,
        error |-> o.error]

\* One attribute assignment.  The member stores the value, and holds a
\* value from then on; the observer is called with the change, unless the
\* member held the value assigned.  The result is the new attribute state
\* of the model and of the proxy, the changes handed to _notify_modified,
\* and the exception.
Setattr(self, name, value, at, pa, hv) ==
    LET t == ChangeType(hv[self][name], at[self][name], value)
        o == IF t = "none" THEN NoChange(pa) ELSE Observer(self, t, name, value, pa)
    IN [attrs |-> [at EXCEPT ![self][name] = value],
        has_value |-> [hv EXCEPT ![self][name] = TRUE],
        pattrs |-> o.pattrs,
        notified |-> o.notified,
        trace |-> o.trace,
        error |-> o.error]

\* What a call leaves of the bookkeeping when it initializes the nodes
\* `inits` and activates the Tags `acts`.
Lifecycle(inits, acts) ==
    /\ initialized' = inits
    /\ activated' = acts
    /\ is_initialized' = [n \in Object |-> is_initialized[n] \/ n \in inits]
    /\ proxy_is_active' = [n \in Tag |-> proxy_is_active[n] \/ n \in acts]
    /\ n_initialize' = [n \in Object |-> n_initialize[n] + IF n \in inits THEN 1 ELSE 0]
    /\ n_activate' = [n \in Tag |-> n_activate[n] + IF n \in acts THEN 1 ELSE 0]

\* tag.name = value.
SetAttr(self, name, value) ==
    LET r == Setattr(self, name, value, attrs, pattrs, has_value) IN
    /\ Step
    /\ name \in DeclaredNames(self)
    /\ attrs' = r.attrs
    /\ has_value' = r.has_value
    /\ pattrs' = r.pattrs
    /\ notified' = r.notified
    /\ trace' = r.trace
    /\ Notifies(self, r.notified, parent)
    /\ Raises(r.error)
    /\ op' = [call |-> "setattr", self |-> self, name |-> name, value |-> value,
              held |-> has_value[self][name],
              changed |-> attrs[self][name] # value]
    /\ Lifecycle({}, {})
    /\ UNCHANGED <<proxy_class, parent, children, prepared, removed_from>>

\* del tag.name, for a member that holds a value: the member holds none
\* afterwards, and the observer is called with a change of type 'delete'
\* that carries the value it held.  Nothing is read: the proxy keeps what it
\* has.
Delattr(self, name) ==
    LET d == Observer(self, "delete", name, attrs[self][name], pattrs) IN
    /\ Step
    /\ name \in DeclaredNames(self)
    /\ has_value[self][name]
    /\ attrs' = [attrs EXCEPT ![self][name] = DefaultAttrs(self)[name]]
    /\ has_value' = [has_value EXCEPT ![self][name] = FALSE]
    /\ pattrs' = d.pattrs
    /\ notified' = d.notified
    /\ trace' = d.trace
    /\ Notifies(self, d.notified, parent)
    /\ Raises(d.error)
    /\ op' = [call |-> "delattr", self |-> self, name |-> name,
              value |-> attrs[self][name], type |-> "delete"]
    /\ Lifecycle({}, {})
    /\ UNCHANGED <<proxy_class, parent, children, prepared, removed_from>>

\* A read of tag.name, for a member that holds no value: the member gets
\* its default value, and the observer is called with a change of type
\* 'create' that carries it.  (The read of a member that holds a value
\* changes nothing and calls nobody.)
Getattr(self, name) ==
    LET c == Observer(self, "create", name, DefaultAttrs(self)[name], pattrs) IN
    /\ Step
    /\ name \in DeclaredNames(self)
    /\ ~has_value[self][name]
    /\ has_value' = [has_value EXCEPT ![self][name] = TRUE]
    /\ pattrs' = c.pattrs
    /\ notified' = c.notified
    /\ trace' = c.trace
    /\ Notifies(self, c.notified, parent)
    /\ Raises(c.error)
    /\ op' = [call |-> "getattr", self |-> self, name |-> name,
              value |-> attrs[self][name], type |-> "create"]
    /\ Lifecycle({}, {})
    /\ UNCHANGED <<proxy_class, parent, children, attrs, prepared, removed_from>>

\* ------------------------------------------------------------------------
\* prepare(**kwargs) and render(**kwargs)
\* ------------------------------------------------------------------------

\* The keyword arguments of the model, as the sequence of (name, value) pairs
\* kwargs.items() yields: none, or text and alt.
Kwargs == {<<>>, << <<"text", "x">>, <<"alt", "x">> >>}

\* The result of assigning no attribute.
NoSetattr(at, pa, hv) ==
    [attrs |-> at, has_value |-> hv, pattrs |-> pa, notified |-> <<>>,
     trace |-> <<>>, error |-> "none"]

\* A variant of SetattrAll that assigns the first keyword argument only.
SetattrAllFirstOnly(self, kwargs, at, pa, hv) ==
    IF kwargs = <<>>
    THEN NoSetattr(at, pa, hv)
    ELSE Setattr(self, kwargs[1][1], kwargs[1][2], at, pa, hv)

\* The state one more assignment leaves: the changes and calls it makes come
\* after those made so far.
After(acc, s) ==
    [attrs |-> s.attrs,
     has_value |-> s.has_value,
     pattrs |-> s.pattrs,
     notified |-> acc.notified \o s.notified,
     trace |-> acc.trace \o s.trace,
     error |-> s.error]

\* for k, v in kwargs.items(): setattr(self, k, v), from the state `acc` the
\* assignments made so far have left: they are made in order, and an
\* exception ends the loop.
RECURSIVE SetattrFrom(_, _, _)
SetattrFrom(self, kwargs, acc) ==
    IF kwargs = <<>> \/ acc.error # "none"
    THEN acc
    ELSE SetattrFrom(self, Tail(kwargs),
                     After(acc, Setattr(self, kwargs[1][1], kwargs[1][2],
                                        acc.attrs, acc.pattrs, acc.has_value)))

\* The loop of Tag.prepare over the keyword arguments given.
SetattrAll(self, kwargs, at, pa, hv) ==
    SetattrFrom(self, kwargs, NoSetattr(at, pa, hv))

\* A variant of PrepareResult that calls activate_proxy() without looking at
\* proxy_is_active.
PrepareResultReactivate(self, kwargs) ==
    LET s == SetattrAll(self, kwargs, attrs, pattrs, has_value)
        ok == s.error = "none"
        inits == IF ok /\ ~is_initialized[self]
                 THEN InitializeSet(self, children) ELSE {}
        acts == IF ok THEN ActivateSet(self, children) ELSE {}
    IN [attrs |-> s.attrs,
        has_value |-> ActivateReads(proxy_class, acts, s.has_value),
        pattrs |-> ActivatePattrs(proxy_class, acts, s.attrs, s.pattrs),
        notified |-> s.notified,
        trace |-> s.trace,
        error |-> s.error,
        initialized |-> inits,
        activated |-> acts]

\* A variant of PrepareResult in which the activation of a Tag notifies an
\* update record with the text the Tag has.
PrepareResultNotifyActivated(self, kwargs) ==
    LET s == SetattrAll(self, kwargs, attrs, pattrs, has_value)
        ok == s.error = "none"
        inits == IF ok /\ ~is_initialized[self]
                 THEN InitializeSet(self, children) ELSE {}
        acts == IF ok /\ ~proxy_is_active[self]
                THEN ActivateSet(self, children) ELSE {}
    IN [attrs |-> s.attrs,
        has_value |-> ActivateReads(proxy_class, acts, s.has_value),
        pattrs |-> ActivatePattrs(proxy_class, acts, s.attrs, s.pattrs),
        notified |-> IF acts = {} THEN s.notified
                     ELSE s.notified
                          \o <<UpdateChange(self, "update", "text",
                                            s.attrs[self]["text"])>>,
        trace |-> s.trace,
        error |-> s.error,
        initialized |-> inits,
        activated |-> acts]

\* Tag.prepare: the attributes given, then initialize() unless initialized,
\* then activate_proxy() unless active.
PrepareResult(self, kwargs) ==
    LET s == SetattrAll(self, kwargs, attrs, pattrs, has_value)
        ok == s.error = "none"
        inits == IF ok /\ ~is_initialized[self]
                 THEN InitializeSet(self, children) ELSE {}
        acts == IF ok /\ ~proxy_is_active[self]
                THEN ActivateSet(self, children) ELSE {}
    IN [attrs |-> s.attrs,
        has_value |-> ActivateReads(proxy_class, acts, s.has_value),
        pattrs |-> ActivatePattrs(proxy_class, acts, s.attrs, s.pattrs),
        notified |-> s.notified,
        trace |-> s.trace,
        error |-> s.error,
        initialized |-> inits,
        activated |-> acts]

Prepare(self, kwargs) ==
    LET r == PrepareResult(self, kwargs) IN
    /\ Step
    /\ attrs' = r.attrs
    /\ has_value' = r.has_value
    /\ pattrs' = r.pattrs
    /\ notified' = r.notified
    /\ trace' = r.trace
    /\ Notifies(self, r.notified, parent)
    /\ Raises(r.error)
    /\ Lifecycle(r.initialized, r.activated)
    /\ prepared' = prepared \cup {self}
    /\ op' = [call |-> "prepare", self |-> self, kwargs |-> kwargs,
              was_active |-> proxy_is_active[self]]
    /\ UNCHANGED <<proxy_class, parent, children, removed_from>>

\* Tag.render: prepare with the keyword arguments given, then the proxy's
\* render().
Render(self, kwargs) ==
    LET r == PrepareResult(self, kwargs) IN
    /\ Step
    /\ attrs' = r.attrs
    /\ has_value' = r.has_value
    /\ pattrs' = r.pattrs
    /\ notified' = r.notified
    /\ trace' = r.trace
    /\ Notifies(self, r.notified, parent)
    /\ Raises(IF r.error # "none" THEN r.error ELSE RenderError(proxy_class))
    /\ Lifecycle(r.initialized, r.activated)
    /\ prepared' = prepared \cup {self}
    /\ op' = [call |-> "render", self |-> self, kwargs |-> kwargs,
              was_active |-> proxy_is_active[self],
              result |-> IF error' = "none"
                         THEN <<Markup(self, children, r.pattrs)>> ELSE <<>>]
    /\ UNCHANGED <<proxy_class, parent, children, removed_from>>

\* tag.initialize(), the inherited Declarative.initialize called by the
\* application on a Tag that is not initialized: the Tag and all the nodes
\* below it are initialized; no proxy is activated.
Initialize(self) ==
    /\ Step
    /\ ~is_initialized[self]
    /\ Lifecycle(InitializeSet(self, children), {})
    /\ Raises("none")
    /\ op' = [call |-> "initialize", self |-> self]
    /\ notified' = <<>>
    /\ trace' = <<>>
    /\ modified' = [h \in Html |-> <<>>]
    /\ UNCHANGED <<proxy_class, parent, children, attrs, has_value, pattrs,
                   prepared, removed_from, stream>>

\* Tag.xpath(query) on a Tag that has its proxy: the proxy's xpath, whose
\* nodes are mapped back to their declarations.  The query of the model
\* matches every Tag of the subtree.
Xpath(self) ==
    /\ Step
    /\ is_initialized[self]
    /\ Raises(XpathError(proxy_class))
    /\ op' = [call |-> "xpath", self |-> self,
              result |-> IF error' = "none"
                         THEN <<ActivateSet(self, children)>> ELSE <<>>]
    /\ notified' = <<>>
    /\ trace' = <<>>
    /\ modified' = [h \in Html |-> <<>>]
    /\ Lifecycle({}, {})
    /\ UNCHANGED <<proxy_class, parent, children, attrs, has_value, pattrs,
                   prepared, removed_from, stream>>

\* ------------------------------------------------------------------------
\* Structural calls
\* ------------------------------------------------------------------------

Children(self) == {children[self][i] : i \in 1..Len(children[self])}

\* parent.insert_children(before, [child]) for a child that has no parent:
\* the child enters the children list, then parent.child_added(child) runs:
\* Declarative.child_added initializes the child of an initialized parent,
\* ToolkitObject.child_added activates the ToolkitObject child of an active
\* parent, and Tag.child_added calls child.render(), which calls
\* child.prepare(), and notifies.
ChildAdded(self, before, child) ==
    /\ Step
    /\ child # self
    /\ parent[child] = NoNode
    /\ child \notin Ancestors(self, parent)
    /\ before \in {NoNode} \cup Children(self)
    /\ LET kids == [children EXCEPT ![self] = InsertBefore(@, before, child)]
           par == [parent EXCEPT ![child] = self]
           handled == StructuralHandled(self, child, proxy_is_active)
           inits == IF (is_initialized[self] \/ handled) /\ ~is_initialized[child]
                    THEN InitializeSet(child, kids) ELSE {}
           acts == IF handled /\ ~proxy_is_active[child]
                   THEN ActivateSet(child, kids) ELSE {}
           pa == ActivatePattrs(proxy_class, acts, attrs, pattrs)
           err == IF handled THEN RenderError(proxy_class) ELSE "none"
           changes == IF handled /\ err = "none"
                      THEN <<WithBefore(AddedChange(self, child, Markup(child, kids, pa)),
                                        kids[self], child)>>
                      ELSE <<>>
       IN /\ children' = kids
          /\ parent' = par
          /\ Lifecycle(inits, acts)
          /\ pattrs' = pa
          /\ has_value' = ActivateReads(proxy_class, acts, has_value)
          /\ notified' = changes
          /\ trace' = <<>>
          /\ Notifies(self, changes, par)
          /\ Raises(err)
          /\ prepared' = IF handled THEN prepared \cup {child} ELSE prepared
          /\ op' = [call |-> "child_added", self |-> self, child |-> child,
                    before |-> before]
    /\ UNCHANGED <<proxy_class, attrs, removed_from>>

\* parent.insert_children(before, [child]) for a child that is already in
\* the children list: the list is reordered, then parent.child_moved(child)
\* runs.  `ok` is what the proxy's child_moved returns when it is asked.
ChildMoved(self, before, child, ok) ==
    /\ Step
    /\ child \in Children(self)
    /\ before \in {NoNode} \cup (Children(self) \ {child})
    /\ LET kids == [children EXCEPT ![self] = InsertBefore(@, before, child)]
           handled == StructuralHandled(self, child, proxy_is_active)
           err == IF handled /\ ~HasChildMoved(proxy_class)
                  THEN "AttributeError" ELSE "none"
           asked == handled /\ err = "none"
           changes == IF err = "none" /\ MoveReported(self, child, proxy_is_active, ok)
                      THEN <<WithBefore(MovedChange(self, child), kids[self], child)>>
                      ELSE <<>>
       IN /\ (asked \/ ok)
          /\ children' = kids
          /\ notified' = changes
          /\ trace' = <<>>
          /\ Notifies(self, changes, parent)
          /\ Raises(err)
          /\ op' = [call |-> "child_moved", self |-> self, child |-> child,
                    before |-> before, ok |-> ok]
    /\ Lifecycle({}, {})
    /\ UNCHANGED <<proxy_class, parent, attrs, has_value, pattrs, prepared,
                   removed_from>>

\* A variant of Unparent that leaves the child's parent reference as it is.
UnparentKeepsParent(par, child) == par

\* The parent reference of a child that child_removed is called for: the
\* child has no parent any more.
Unparent(par, child) == [par EXCEPT ![child] = NoNode]

\* child.set_parent(None): the child leaves its parent's children list, then
\* the old parent's child_removed(child) runs.
ChildRemoved(self, child) ==
    /\ Step
    /\ parent[child] = self
    /\ LET kids == [children EXCEPT ![self] = Without(@, child)]
           par == Unparent(parent, child)
           changes == IF StructuralHandled(self, child, proxy_is_active)
                      THEN <<RemovedChange(self, child)>> ELSE <<>>
       IN /\ children' = kids
          /\ parent' = par
          /\ notified' = changes
          /\ trace' = <<>>
          /\ Notifies(self, changes, par)
          /\ op' = [call |-> "child_removed", self |-> self, child |-> child]
          /\ removed_from' =
                IF child \in Tag /\ root_object(self, parent) \in Html
                THEN [removed_from EXCEPT ![child] = root_object(self, parent)]
                ELSE removed_from
    /\ Raises("none")
    /\ Lifecycle({}, {})
    /\ UNCHANGED <<proxy_class, attrs, has_value, pattrs, prepared>>

\* ------------------------------------------------------------------------
\* The specification
\* ------------------------------------------------------------------------

\* The children lists of a forest given by the lists of its inner nodes.
Forest(inner) == [n \in Object |-> IF n \in DOMAIN inner THEN inner[n] ELSE <<>>]

\* The trees the application constructs before its first call: a Document
\* with two Tags around a pattern node, a tree whose root is a plain Tag
\* (with a Document nested in it), and a Document next to a second Document
\* that has a subtree.
InitialForests ==
    { Forest([D |-> <<"A", "L", "B">>]),
      Forest([A |-> <<"B", "L", "C">>]),
      Forest([D |-> <<"A">>, C |-> <<"B", "L">>]) }

ParentIn(kids, n) ==
    LET ps == {p \in Object : \E i \in 1..Len(kids[p]) : kids[p][i] = n} IN
    IF ps = {} THEN NoNode ELSE CHOOSE p \in ps : TRUE

\* The roots the application may have rendered before its first call here:
\* none, or, with a proxy class whose render() returns, one Tag that is the
\* root of a tree.
RenderedRoots(cls, kids) ==
    {NoNode} \cup {n \in Tag : /\ ParentIn(kids, n) = NoNode
                               /\ kids[n] # <<>>
                               /\ RenderError(cls) = "none"}

\* After start-up: the tree is built (with ProxyTag as the proxy class, the
\* Document with its two Tags) and no attribute holds a value;
\* either nothing is initialized and no proxy is active, or one root has
\* been through render(), which initialized and activated its tree, whose
\* renderer read the attributes, and returned its markup.
Init ==
    /\ proxy_class \in ProxyClasses
    /\ children \in InitialForests
    /\ proxy_class = "ProxyTag" => children = Forest([D |-> <<"A", "L", "B">>])
    /\ parent = [n \in Object |-> ParentIn(children, n)]
    /\ attrs = [n \in Tag |-> DefaultAttrs(n)]
    /\ pattrs = [n \in Tag |-> DefaultAttrs(n)]
    /\ \E r \in RenderedRoots(proxy_class, children) :
          LET inits == IF r = NoNode THEN {} ELSE InitializeSet(r, children)
              acts == IF r = NoNode THEN {} ELSE ActivateSet(r, children)
          IN /\ is_initialized = [n \in Object |-> n \in inits]
             /\ proxy_is_active = [n \in Tag |-> n \in acts]
             /\ n_initialize = [n \in Object |-> IF n \in inits THEN 1 ELSE 0]
             /\ n_activate = [n \in Tag |-> IF n \in acts THEN 1 ELSE 0]
             /\ prepared = {r} \ {NoNode}
             /\ has_value = ActivateReads(proxy_class, acts,
                                          [n \in Tag |-> [k \in DeclaredNames(n) |-> FALSE]])
    /\ op = [call |-> "init"]
    /\ initialized = {}
    /\ activated = {}
    /\ notified = <<>>
    /\ modified = [h \in Html |-> <<>>]
    /\ stream = [h \in Html |-> <<>>]
    /\ error = "none"
    /\ removed_from = [n \in Tag |-> NoNode]
    /\ trace = <<>>
    /\ failed = FALSE
    /\ steps = 0

\* The attribute the application deletes, and reads without assigning it.
DirectNames == {"text"}

\* One call of the application.  The budget of calls is tested before the
\* inputs of a call are chosen.
Next ==
    \/ steps < MaxOps
       /\ \E self \in Tag, name \in ObservedNames \cup {"dir"}, value \in Values :
             SetAttr(self, name, value)
    \/ steps < MaxOps
       /\ \E self \in Tag, name \in DirectNames : Delattr(self, name)
    \/ steps < MaxOps
       /\ \E self \in Tag, name \in DirectNames : Getattr(self, name)
    \/ steps < MaxOps /\ \E self \in Tag, kwargs \in Kwargs : Prepare(self, kwargs)
    \/ steps < MaxOps /\ \E self \in Tag, kwargs \in Kwargs : Render(self, kwargs)
    \/ steps < MaxOps /\ \E self \in Tag : Xpath(self)
    \/ steps < MaxOps /\ \E self \in Tag : Initialize(self)
    \/ steps < MaxOps
       /\ \E self \in Tag, child \in Object, before \in Object \cup {NoNode} :
             ChildAdded(self, before, child)
    \/ steps < MaxOps
       /\ \E self \in Tag, child \in Object, before \in Object \cup {NoNode},
             ok \in BOOLEAN : ChildMoved(self, before, child, ok)
    \/ steps < MaxOps /\ \E self \in Tag, child \in Object : ChildRemoved(self, child)

Spec == Init /\ [][Next]_vars

\* The calls other than the insertion of a child: prepare() and render()
\* in any order and on any Tag, between attribute assignments, deletions
\* and reads, moves and removals.
NextPrepare ==
    \/ steps < MaxOps
       /\ \E self \in Tag, name \in ObservedNames \cup {"dir"}, value \in Values :
             SetAttr(self, name, value)
    \/ steps < MaxOps
       /\ \E self \in Tag, name \in DirectNames : Delattr(self, name)
    \/ steps < MaxOps
       /\ \E self \in Tag, name \in DirectNames : Getattr(self, name)
    \/ steps < MaxOps /\ \E self \in Tag, kwargs \in Kwargs : Prepare(self, kwargs)
    \/ steps < MaxOps /\ \E self \in Tag, kwargs \in Kwargs : Render(self, kwargs)
    \/ steps < MaxOps
       /\ \E self \in Tag, child \in Object, before \in Object \cup {NoNode},
             ok \in BOOLEAN : ChildMoved(self, before, child, ok)
    \/ steps < MaxOps /\ \E self \in Tag, child \in Object : ChildRemoved(self, child)

SpecPrepare == Init /\ [][NextPrepare]_vars


\* ------------------------------------------------------------------------
\* Properties
\* ------------------------------------------------------------------------

NoneDelivered == \A h \in Html : modified[h] = <<>>

\* The changes of the last call reached the Document at the root of the tree
\* of `self`, when there is one.
DeliveredToRoot(self) ==
    \A h \in Html : root_object(self, parent) = h => modified[h] = notified

Structural == {"child_added", "child_moved", "child_removed"}

Position(kids, child) == CHOOSE i \in 1..Len(kids) : kids[i] = child

\* The child sits where insert_children(before, [child]) puts it: right in
\* front of `before`, or last.
PlacedBefore(kids, before, child) ==
    /\ \E i \in 1..Len(kids) : kids[i] = child
    /\ IF before = NoNode
       THEN kids[Len(kids)] = child
       ELSE /\ Position(kids, child) < Len(kids)
            /\ kids[Position(kids, child) + 1] = before

\* The proxy can take an update of the attribute, which is an observed one:
\* it has set_<name> or the fallback set_attribute.
CanUpdate(name) ==
    /\ name \in ObservedNames
    /\ HasSetter(proxy_class, name) \/ HasSetAttribute(proxy_class)

\* The last call assigned, to a member that held a value, a different one:
\* the change the observer got was an 'update'.
Updated == op.call = "setattr" /\ op.held /\ op.changed

\* The last call assigned a value to a member that held none: the change
\* the observer got was a 'create'.
Created == op.call = "setattr" /\ ~op.held

\* C1: an assignment of a new value to an observed attribute that holds a
\* value, on an active Tag whose proxy has a setter for it or the
\* set_attribute fallback, hands exactly one change to _notify_modified in
\* the same call: type 'update', the Tag's id, the attribute's name and the
\* new value; the change is delivered to the Html at the root of the Tag's
\* tree, and the model holds the new value.  An assignment to an attribute
\* that holds no value hands over no change, calls nothing on the proxy and
\* raises nothing; the model holds the value.
C1_UpdateRecord ==
    /\ (/\ Updated
        /\ proxy_is_active[op.self]
        /\ CanUpdate(op.name))
       => /\ notified = <<[id |-> op.self, type |-> "update",
                           name |-> op.name, value |-> op.value]>>
          /\ DeliveredToRoot(op.self)
          /\ attrs[op.self][op.name] = op.value
          /\ error = "none"
    /\ Created
       => /\ notified = <<>>
          /\ trace = <<>>
          /\ NoneDelivered
          /\ attrs[op.self][op.name] = op.value
          /\ has_value[op.self][op.name]
          /\ error = "none"

\* C1 witness: a new value was assigned on an active Tag below the Document
\* and the Document received the one record.
C1_Witness ==
    /\ Updated
    /\ op.self \notin Html
    /\ proxy_is_active[op.self]
    /\ Len(modified["D"]) = 1
    /\ modified["D"][1].type = "update"

\* C1 as stated: every assignment of a new value to an observed attribute
\* of an active Tag, whose proxy can take it, hands over one 'update'
\* change, whether the attribute held a value or not.
C1_AnyNewValue ==
    (/\ op.call = "setattr"
     /\ op.changed
     /\ proxy_is_active[op.self]
     /\ CanUpdate(op.name))
    => /\ notified = <<[id |-> op.self, type |-> "update",
                        name |-> op.name, value |-> op.value]>>
       /\ DeliveredToRoot(op.self)

\* C2: while a Tag is not active, an attribute assignment on it and a child
\* add / move / remove on it deliver no change, raise nothing and are
\* applied to the model (the attribute holds the value, the children list
\* has the child at its place or no longer has it); a later render() of a
\* Tag that was not active activates its Tags, and the renderer then holds
\* the attribute values of the model and returns the markup of that state.
C2_SilentWhileInactive ==
    /\ (op.call = "setattr" /\ ~proxy_is_active[op.self])
       => /\ notified = <<>> /\ NoneDelivered /\ error = "none"
          /\ attrs[op.self][op.name] = op.value
    /\ (op.call \in Structural /\ ~proxy_is_active[op.self])
       => /\ notified = <<>> /\ NoneDelivered /\ error = "none"
          /\ op.call = "child_removed"
             => /\ op.child \notin Children(op.self)
                /\ parent[op.child] = NoNode
          /\ op.call \in {"child_added", "child_moved"}
             => /\ PlacedBefore(children[op.self], op.before, op.child)
                /\ parent[op.child] = op.self
    /\ (op.call = "render" /\ ~op.was_active)
       => /\ notified = <<>> /\ NoneDelivered
          /\ \A n \in ActivateSet(op.self, children) : proxy_is_active[n]
          /\ proxy_class = "WebComponent"
             => /\ error = "none"
                /\ \A n \in ActivateSet(op.self, children) : pattrs[n] = attrs[n]
                /\ op.result = <<Markup(op.self, children, attrs)>>

\* C2 witness: a Tag that was not active is rendered after an attribute was
\* set on it while it was inactive, and the markup carries that value.
C2_Witness ==
    /\ op.call = "render"
    /\ ~op.was_active
    /\ op.kwargs = <<>>
    /\ error = "none"
    /\ attrs[op.self]["alt"] = "x"
    /\ op.result[1].attrs["alt"] = "x"
    /\ notified = <<>>

StructuralRecords ==
    {notified[i] : i \in {j \in 1..Len(notified) :
                            notified[j].type \in {"added", "moved", "removed"}}}

\* C3 as claimed: the id of every structural change record is the id of the
\* affected child.
C3_IdIsChild ==
    op.call \in Structural => \A r \in StructuralRecords : r.id = op.child

\* C3, amended: the id of every structural change record is the id of the
\* parent Tag that emitted it; the affected child is named by the value of a
\* moved or removed record and by the root of the markup of an added record.
C3_IdIsParent ==
    op.call \in Structural
    => \A r \in StructuralRecords :
          /\ r.id = op.self
          /\ r.id # op.child
          /\ r.type \in {"moved", "removed"} => r.value = op.child
          /\ r.type = "added" => r.value.id = op.child

\* C3 witness: an active parent that is not the Document emitted a
\* structural record, which the Document received.
C3_Witness ==
    /\ op.call \in Structural
    /\ op.self \notin Html
    /\ Len(modified["D"]) = 1
    /\ modified["D"][1].type \in {"added", "moved", "removed"}
    /\ modified["D"][1].id = op.self

\* The Tags that follow the child in the children list.
FollowingTags(kids, child) ==
    {i \in 1..Len(kids) : i > Position(kids, child) /\ kids[i] \in Tag}

\* C4: in every added or moved record, `before` is the id of the nearest
\* Tag that follows the child in the parent's children list as the call
\* leaves it, and the field is absent exactly when no Tag follows.
C4_Anchor ==
    op.call \in {"child_added", "child_moved"}
    => \A r \in StructuralRecords :
          LET kids == children[op.self]
              after == FollowingTags(kids, op.child)
          IN /\ ("before" \in DOMAIN r) <=> (after # {})
             /\ after # {}
                => /\ r.before = kids[CHOOSE i \in after : \A j \in after : i <= j]
                   /\ \A j \in after : kids[j] = r.before
                         \/ Position(kids, r.before) < j

\* C4 witness: a record whose anchor is not the next sibling, because the
\* next sibling is a pattern node.
C4_Witness ==
    /\ op.call \in {"child_added", "child_moved"}
    /\ Len(notified) = 1
    /\ "before" \in DOMAIN notified[1]
    /\ LET kids == children[op.self] IN
       /\ kids[Position(kids, op.child) + 1] \in Pattern
       /\ Position(kids, notified[1].before) = Position(kids, op.child) + 2


\* The last call was a structural call for a Tag child on an active parent.
OnActiveParent(call) ==
    /\ op.call = call
    /\ op.child \in Tag
    /\ proxy_is_active[op.self]

\* C5: the insertion of one Tag child into an active parent, with a proxy
\* that implements render(), hands exactly one change to _notify_modified:
\* type 'added', name 'children', value the markup the child's proxy renders
\* for the child and its subtree; nothing else is notified for the child's
\* descendants or attributes, and the Document at the root receives that
\* one record.
C5_OneAddedRecord ==
    (OnActiveParent("child_added") /\ RenderError(proxy_class) = "none")
    => /\ Len(notified) = 1
       /\ notified[1].type = "added"
       /\ notified[1].name = "children"
       /\ notified[1].value = Markup(op.child, children, pattrs)
       /\ DeliveredToRoot(op.self)
       /\ \A h \in Html : Len(modified[h]) <= 1
       /\ error = "none"

\* C5 witness: a Tag that has a Tag child of its own was inserted, the call
\* activated both, and the Document received one record.
C5_Witness ==
    /\ OnActiveParent("child_added")
    /\ \E c \in Children(op.child) : c \in Tag /\ {op.child, c} \subseteq activated
    /\ Len(modified["D"]) = 1
    /\ Len(modified["D"][1].value.children) >= 1

\* The last call moved a Tag child of an active parent and the proxy's
\* child_moved returned `ok`.
MoveAnswered(ok) ==
    /\ OnActiveParent("child_moved")
    /\ HasChildMoved(proxy_class)
    /\ op.ok = ok

\* C6: a move of a Tag child within an active parent for which the proxy's
\* child_moved returns true hands exactly one change to _notify_modified:
\* type 'moved', name 'children', value the child's id; when the child ends
\* up last in the children list the record has no `before`.
C6_MovedRecord ==
    MoveAnswered(TRUE)
    => /\ Len(notified) = 1
       /\ notified[1].type = "moved"
       /\ notified[1].name = "children"
       /\ notified[1].value = op.child
       /\ children[op.self][Len(children[op.self])] = op.child
          => "before" \notin DOMAIN notified[1]
       /\ DeliveredToRoot(op.self)
       /\ error = "none"

\* C6 witness: a Tag was moved to the end of a list of three children and
\* the Document received a moved record without `before`.
C6_Witness ==
    /\ MoveAnswered(TRUE)
    /\ op.before = NoNode
    /\ Len(children[op.self]) >= 3
    /\ Len(modified["D"]) = 1
    /\ modified["D"][1].type = "moved"
    /\ "before" \notin DOMAIN modified["D"][1]

\* C7: a move of a Tag child within an active parent for which the proxy's
\* child_moved returns false notifies nothing and raises nothing, and the
\* children list keeps the order the move gave it.
C7_FailedMoveSilent ==
    MoveAnswered(FALSE)
    => /\ notified = <<>>
       /\ NoneDelivered
       /\ error = "none"
       /\ PlacedBefore(children[op.self], op.before, op.child)

\* C7 witness: the proxy refused the move of a Tag in front of a sibling
\* under an active Document.
C7_Witness ==
    /\ MoveAnswered(FALSE)
    /\ op.self \in Html
    /\ op.before # NoNode
    /\ children[op.self][1] = op.child

\* C8: the removal of a Tag child from an active parent hands exactly one
\* change to _notify_modified: type 'removed', name 'children', value the
\* child's id, no `before`; the child is out of the parent's children list
\* in the state the record is built from.
C8_RemovedRecord ==
    OnActiveParent("child_removed")
    => /\ Len(notified) = 1
       /\ notified[1].type = "removed"
       /\ notified[1].name = "children"
       /\ notified[1].value = op.child
       /\ "before" \notin DOMAIN notified[1]
       /\ op.child \notin Children(op.self)
       /\ parent[op.child] = NoNode
       /\ DeliveredToRoot(op.self)
       /\ error = "none"

\* C8 witness: a Tag was removed from an active Document that keeps other
\* children, and the Document received the removed record.
C8_Witness ==
    /\ OnActiveParent("child_removed")
    /\ op.self \in Html
    /\ children[op.self] # <<>>
    /\ Len(modified["D"]) = 1
    /\ modified["D"][1].type = "removed"

\* C9: a structural call for a child that is not a Tag notifies nothing,
\* whether the parent is active or not, and the `before` of a record is
\* always a Tag, never a pattern node.
C9_NonTagTransparent ==
    /\ (op.call \in Structural /\ op.child \in Pattern)
       => notified = <<>> /\ NoneDelivered /\ error = "none"
    /\ op.call \in Structural
       => \A r \in StructuralRecords :
             "before" \in DOMAIN r => r.before \in Tag /\ r.before \notin Pattern

\* C9 witness: a pattern node was moved within an active Document.
C9_Witness ==
    /\ op.call = "child_moved"
    /\ op.child \in Pattern
    /\ op.self \in Html
    /\ proxy_is_active[op.self]
    /\ Len(children[op.self]) >= 3

\* C10, counts (under SpecPrepare): as long as prepare() and render() have
\* been called on one Tag only, initialize() and activate_proxy() have each
\* run at most once on it, and exactly once as soon as it has been prepared.
C10_Once ==
    \A t \in Tag :
       prepared \subseteq {t}
       => /\ n_initialize[t] <= 1
          /\ n_activate[t] <= 1
          /\ t \in prepared
             => /\ n_initialize[t] = 1 /\ n_activate[t] = 1
                /\ is_initialized[t] /\ proxy_is_active[t]

\* C10, no-op: prepare() without arguments on a Tag that is active changes
\* neither the flags nor the state of any proxy, runs no initialize() and
\* no activate_proxy(), notifies nothing and raises nothing.
C10_NoOp ==
    (op'.call = "prepare" /\ op'.kwargs = <<>> /\ proxy_is_active[op'.self])
    => /\ pattrs' = pattrs
       /\ attrs' = attrs
       /\ proxy_is_active' = proxy_is_active
       /\ is_initialized' = is_initialized
       /\ n_initialize' = n_initialize
       /\ n_activate' = n_activate
       /\ notified' = <<>>
       /\ \A h \in Html : modified'[h] = <<>>
       /\ error' = "none"

\* C10: activation is idempotent over the calls of SpecPrepare: both parts
\* above.
C10_IdempotentActivation == []C10_Once /\ [][C10_NoOp]_vars

\* C10 witness: prepare() was called on a Tag that an earlier call on the
\* same Tag had activated, and it has still been activated once.
C10_Witness ==
    /\ op.call = "prepare"
    /\ op.kwargs = <<>>
    /\ op.was_active
    /\ prepared = {op.self}
    /\ n_activate[op.self] = 1
    /\ n_initialize[op.self] = 1
    /\ children[op.self] # <<>>

\* C11: every change delivered to an Html by a call comes from the Tag the
\* call was made on; that Tag was active before the call, and when the call
\* returns the Html is the root of the tree the Tag is in.  Nothing from a
\* Tag of another tree or from a Tag that was not active is delivered.
C11_FromActiveTagInTree ==
    [][\A h \in Html : \A i \in 1..Len(modified'[h]) :
          LET r == modified'[h][i] IN
          /\ r.id = op'.self
          /\ r.id \in Tag
          /\ proxy_is_active[r.id]
          /\ h = r.id \/ h \in Ancestors(r.id, parent')
          /\ root_object(r.id, parent') = h]_vars

\* C11 witness: with two Documents at the roots of two trees, a Tag below
\* one of them delivered a record, and the other Document received nothing.
C11_Witness ==
    /\ op.call = "setattr"
    /\ parent["C"] = NoNode /\ parent["D"] = NoNode
    /\ children["D"] # <<>>
    /\ parent[op.self] = "C"
    /\ Len(modified["C"]) = 1
    /\ modified["D"] = <<>>

\* C12 as claimed: the changes a call notifies are delivered to the Html
\* nearest to the Tag on its way up, the Tag included, and to no other.
C12_NearestDocument ==
    (op.call # "init" /\ notified # <<>>)
    => \A h \in Html :
          modified[h] = IF NearestHtml(op.self, parent) = h THEN notified ELSE <<>>

\* C12, amended: the changes a call notifies are delivered unchanged to the
\* root of the Tag's tree when that root is an Html, and to nobody when it
\* is not; an Html that has a parent receives nothing, not even the changes
\* it notifies itself.
C12_RootDocument ==
    op.call # "init"
    => /\ \A h \in Html :
             modified[h] = IF root_object(op.self, parent) = h THEN notified ELSE <<>>
       /\ \A h \in Html : parent[h] # NoNode => modified[h] = <<>>

\* C12 witness: a Tag below a Document that has a Document above it
\* notified a change; the Document at the root received it and the nested
\* Document did not.
C12_Witness ==
    /\ op.call = "setattr"
    /\ parent[op.self] = "C"
    /\ parent["C"] = "D"
    /\ Len(notified) = 1
    /\ modified["D"] = notified
    /\ modified["C"] = <<>>

\* C13: a call on an active Tag whose tree has no Html at its root (an
\* attribute assignment, the insertion, move or removal of a child) delivers
\* nothing to any Html; with a proxy that implements the operations it
\* raises nothing, the proxy takes the update (the new value of an attribute
\* that held one, the activation of the inserted child) and the model
\* changes (the attribute
\* holds the value, the children list has the child at its place or no
\* longer has it).
C13_NoDocumentAtRoot ==
    (/\ op.call \in {"setattr"} \cup Structural
     /\ proxy_is_active[op.self]
     /\ root_object(op.self, parent) \notin Html)
    => /\ NoneDelivered
       /\ proxy_class = "WebComponent" => error = "none"
       /\ op.call = "setattr"
          => /\ attrs[op.self][op.name] = op.value
             /\ (Updated /\ CanUpdate(op.name))
                => /\ pattrs[op.self][op.name] = op.value
                   /\ Len(notified) = 1
       /\ op.call = "child_added"
          => /\ PlacedBefore(children[op.self], op.before, op.child)
             /\ parent[op.child] = op.self
             /\ op.child \in Tag
                => /\ proxy_is_active[op.child]
                   /\ proxy_class = "WebComponent"
                      => /\ \A k \in ObservedNames :
                               \/ pattrs[op.child][k] = attrs[op.child][k]
                               \/ attrs[op.child][k] = DefaultAttrs(op.child)[k]
                         /\ Len(notified) = 1
       /\ op.call = "child_moved"
          => PlacedBefore(children[op.self], op.before, op.child)
       /\ op.call = "child_removed"
          => /\ op.child \notin Children(op.self)
             /\ parent[op.child] = NoNode
             /\ op.child \in Tag => Len(notified) = 1

\* C13 witness: in a rendered tree whose root is a plain Tag, a new value
\* was assigned to an attribute of a Tag below the root: the proxy holds
\* it, a change was notified and no Html received it.
C13_Witness ==
    /\ Updated
    /\ proxy_is_active[op.self]
    /\ parent[op.self] # NoNode
    /\ root_object(op.self, parent) \notin Html
    /\ pattrs[op.self][op.name] = op.value
    /\ Len(notified) = 1
    /\ NoneDelivered
    /\ error = "none"

\* The ids of the nodes in a markup.
RECURSIVE MarkupIds(_)
MarkupIds(m) ==
    {m.id} \cup UNION {MarkupIds(m.children[i]) : i \in DOMAIN m.children}

\* The change refers to the Tag: by its id, by its anchor, by the value of a
\* moved or removed record, or by the markup of an added record.
RefersTo(r, t) ==
    \/ r.id = t
    \/ "before" \in DOMAIN r /\ r.before = t
    \/ r.type \in {"moved", "removed"} /\ r.value = t
    \/ r.type = "added" /\ t \in MarkupIds(r.value)

\* The Tag and the Tags below it.
Subtree(t) == {n \in Tag : n = t \/ t \in Ancestors(n, parent)}

\* What the removal of `t` from the tree of the Html `h` leaves on the
\* stream of `h`: a call on `t` or below it delivers nothing to `h`, and a
\* record delivered to `h` that refers to `t` is the record of its removal.
QuietAfterRemoval(t, h) ==
    /\ op.self \in Subtree(t) => modified[h] = <<>>
    /\ \A i \in 1..Len(modified[h]) :
          RefersTo(modified[h][i], t)
          => /\ op.call = "child_removed"
             /\ op.child = t
             /\ modified[h][i].type = "removed"

\* C14 as claimed: once a Tag has been removed from its parent in the tree
\* of an Html, no later call on it or below it delivers a change to that
\* Html, and no change delivered to that Html after the record of the
\* removal refers to it.
C14_NeverAfterRemoval ==
    \A t \in Tag : removed_from[t] # NoNode => QuietAfterRemoval(t, removed_from[t])

\* C14, amended: the same, for as long as the removed Tag is not among the
\* nodes of the tree of that Html.  A Tag that was removed can be inserted again: the
\* added record of that insertion refers to it, and calls on it deliver
\* changes to the Html again.
C14_WhileRemoved ==
    \A t \in Tag :
       (removed_from[t] # NoNode /\ t \notin InitializeSet(removed_from[t], children))
       => QuietAfterRemoval(t, removed_from[t])

\* C14 witness: an active Tag that was removed from an active Document was
\* assigned a new value; a change was notified and the Document, which is
\* still active, received nothing.
C14_Witness ==
    /\ op.call = "setattr"
    /\ op.changed
    /\ removed_from[op.self] = "D"
    /\ op.self \notin InitializeSet("D", children)
    /\ proxy_is_active["D"]
    /\ Len(notified) = 1
    /\ modified["D"] = <<>>

\* C15 as claimed, on the attributes that have an observer: with a proxy
\* that implements the setters, the proxy of every active Tag holds, for
\* every attribute the Tag declares and Tag._update_proxy observes, the value
\* the Tag has.  (For dir of Bdo, which has no observer, the code fails the
\* claim with one assignment: that is C22.)
C15_NoDriftAlways ==
    proxy_class = "WebComponent"
    => \A t \in Tag :
          proxy_is_active[t]
          => \A k \in DeclaredNames(t) \cap ObservedNames :
                pattrs[t][k] = attrs[t][k]

\* del tag.name was the call of the step, for attribute k of Tag t.
Deletes(t, k) == op'.call = "delattr" /\ op'.self = t /\ op'.name = k

\* The call of the step was C22's failing input: the assignment to attribute
\* k of Tag t, which the Tag's type declares and no observer watches.
AssignsUnobserved(t, k) ==
    /\ k \notin ObservedNames
    /\ op'.call = "setattr" /\ op'.self = t /\ op'.name = k

\* C15, amended: with a proxy that implements the setters, for every
\* attribute a Tag declares, the proxy holds the value the Tag has when the
\* Tag is activated, and every later call keeps the two equal as long as
\* the attribute holds a value and is not deleted.  The one call set apart
\* is the assignment to an attribute without an observer, for which the
\* code fails the claim (C22).
C15_NoDriftWhileHeld ==
    [][proxy_class = "WebComponent"
       => \A t \in Tag : \A k \in DeclaredNames(t) :
             /\ (~proxy_is_active[t] /\ proxy_is_active'[t])
                => pattrs'[t][k] = attrs'[t][k]
             /\ (/\ proxy_is_active[t]
                 /\ pattrs[t][k] = attrs[t][k]
                 /\ has_value[t][k]
                 /\ ~Deletes(t, k)
                 /\ ~AssignsUnobserved(t, k))
                => pattrs'[t][k] = attrs'[t][k]]_vars

\* C15 witness: an observed attribute of an active Tag was assigned a new
\* value through the fallback set_attribute, and the proxy holds it.
C15_Witness ==
    /\ Updated
    /\ op.name = "alt"
    /\ op.value = "x"
    /\ proxy_is_active[op.self]
    /\ proxy_class = "WebComponent"
    /\ pattrs[op.self]["alt"] = "x"
    /\ attrs[op.self]["alt"] = "x"

\* The positions of the trace that are calls on the proxy.
ProxyCalls == {i \in 1..Len(trace) : trace[i].call # "_notify_modified"}

\* C16: an assignment of a new value to an observed attribute that holds a
\* value, on an active Tag, makes exactly one call on the proxy, then one call of
\* _notify_modified with the update record: set_text(value) for text, for
\* which the proxy has a setter, and set_attribute(name, value) for alt, for
\* which it has none.  In every call, each notification of an update is
\* preceded by its one call on the proxy: when prepare or render assigns
\* several attributes, the calls alternate.
C16_ProxyThenRecord ==
    /\ (/\ Updated
        /\ proxy_is_active[op.self]
        /\ CanUpdate(op.name))
       => /\ Len(trace) = 2
          /\ ProxyCalls = {1}
          /\ op.name = "text" => trace[1] = [call |-> "set_text", args |-> <<op.value>>]
          /\ op.name = "alt"
             => trace[1] = [call |-> "set_attribute", args |-> <<"alt", op.value>>]
          /\ trace[2] = [call |-> "_notify_modified", args |-> notified]
          /\ Len(notified) = 1
          /\ pattrs[op.self][op.name] = op.value
    /\ \A i \in 1..Len(trace) :
          trace[i].call = "_notify_modified"
          => /\ i > 1
             /\ i - 1 \in ProxyCalls
             /\ Cardinality({j \in ProxyCalls : j < i})
                   = Cardinality({j \in 1..i : j \notin ProxyCalls})

\* C16 witness: text was assigned on an active Tag below the Document; the
\* proxy's set_text ran, then the record was notified and delivered.
C16_Witness ==
    /\ Updated
    /\ op.name = "text"
    /\ Len(trace) = 2
    /\ trace[1].call = "set_text"
    /\ trace[2].call = "_notify_modified"
    /\ Len(modified["D"]) = 1

\* The last call assigned a new value to an observed attribute that held a
\* value, on an active Tag whose proxy has neither set_<name> nor
\* set_attribute.
UpdateWithoutSetter ==
    /\ Updated
    /\ op.name \in ObservedNames
    /\ proxy_is_active[op.self]
    /\ ~HasSetter(proxy_class, op.name)
    /\ ~HasSetAttribute(proxy_class)

\* C17 as claimed: such an assignment raises nothing and the model holds the
\* new value.
C17_SilentlyAbsorbed ==
    UpdateWithoutSetter
    => error = "none" /\ attrs[op.self][op.name] = op.value

\* C17, amended: such an assignment raises AttributeError to the caller,
\* out of the lookup of set_attribute on the proxy; the model holds the new
\* value, no call was made on the proxy, whose state is as it was, and
\* nothing is notified or delivered.
C17_RaisesAttributeError ==
    UpdateWithoutSetter
    => /\ error = "AttributeError"
       /\ attrs[op.self][op.name] = op.value
       /\ trace = <<>>
       /\ pattrs[op.self] = DefaultAttrs(op.self)
       /\ notified = <<>>
       /\ NoneDelivered

\* C17 witness: with ProxyTag as the proxy class, an attribute given to
\* prepare() when the Document was activated was assigned a new value; the
\* call raised and the Document holds the value.
C17_Witness ==
    /\ UpdateWithoutSetter
    /\ proxy_class = "ProxyTag"
    /\ op.self \in Html
    /\ parent[op.self] = NoNode
    /\ error = "AttributeError"
    /\ attrs[op.self][op.name] = op.value
    /\ trace = <<>>

\* The parent references and the children lists describe the same forest.
TreeConsistent ==
    /\ \A n \in Object : parent[n] = ParentIn(children, n)
    /\ \A n \in Object : \A i, j \in 1..Len(children[n]) :
          children[n][i] = children[n][j] => i = j
    /\ \A n \in Object : n \notin Ancestors(n, parent)

\* C18 as claimed, for one call: a call that raises leaves the parents, the
\* children lists and the attribute values as they were before it.
C18_FailedCallChangesNothing ==
    [][error' # "none"
       => parent' = parent /\ children' = children /\ attrs' = attrs]_vars

\* What each call does when the proxy class is ProxyTag, which has no
\* set_attribute and no child_moved and whose render and xpath raise.
C18_Failure ==
    /\ error' # "none"
       => /\ proxy_class = "ProxyTag"
          /\ error' \in {"NotImplementedError", "AttributeError"}
          /\ notified' = <<>>
          /\ \A h \in Html : modified'[h] = <<>>
    /\ (proxy_class = "ProxyTag" /\ op'.call = "render")
       => /\ error' \in {"NotImplementedError", "AttributeError"}
          /\ op'.kwargs = <<>>
             => error' = "NotImplementedError" /\ attrs' = attrs
          /\ op'.result = <<>>
          /\ parent' = parent /\ children' = children
          /\ \A t \in Tag \ {op'.self} : attrs'[t] = attrs[t]
    /\ (proxy_class = "ProxyTag" /\ op'.call = "xpath")
       => /\ error' = "NotImplementedError"
          /\ op'.result = <<>>
          /\ parent' = parent /\ children' = children /\ attrs' = attrs
          /\ proxy_is_active' = proxy_is_active
    /\ (/\ proxy_class = "ProxyTag" /\ op'.call = "setattr"
        /\ op'.held /\ op'.changed /\ op'.name \in ObservedNames
        /\ proxy_is_active[op'.self])
       => /\ error' = "AttributeError"
          /\ parent' = parent /\ children' = children
          /\ attrs' = [attrs EXCEPT ![op'.self][op'.name] = op'.value]
          /\ attrs' # attrs
    /\ (/\ proxy_class = "ProxyTag" /\ op'.call = "child_moved"
        /\ op'.child \in Tag /\ proxy_is_active[op'.self])
       => /\ error' = "AttributeError"
          /\ parent' = parent /\ attrs' = attrs
          /\ children' = [children EXCEPT
                            ![op'.self] = InsertBefore(@, op'.before, op'.child)]
    /\ (/\ proxy_class = "ProxyTag" /\ op'.call = "child_added"
        /\ op'.child \in Tag /\ proxy_is_active[op'.self])
       => /\ error' = "NotImplementedError"
          /\ attrs' = attrs
          /\ parent'[op'.child] = op'.self
          /\ PlacedBefore(children'[op'.self], op'.before, op'.child)

\* A call made after a call has raised does what it does otherwise: the
\* removal of a Tag from an active parent notifies its record, and an
\* assignment on a Tag that is not active is stored.
C18_LaterCalls ==
    failed
    => /\ (op'.call = "child_removed" /\ op'.child \in Tag
           /\ proxy_is_active[op'.self])
          => /\ error' = "none"
             /\ notified' = <<[id |-> op'.self, type |-> "removed",
                               name |-> "children", value |-> op'.child]>>
             /\ modified' = NotifyModified(op'.self, notified', parent')
       /\ (op'.call = "setattr" /\ ~proxy_is_active[op'.self])
          => error' = "none" /\ attrs'[op'.self][op'.name] = op'.value

\* C18, amended: a capability the proxy does not implement makes the call
\* that needs it raise (NotImplementedError from render and xpath,
\* AttributeError for set_attribute and child_moved) and return nothing;
\* no record is notified.  render and xpath leave the tree and the
\* attribute values as they were, but for the attributes given to render as
\* keyword arguments; a failed attribute update leaves the new
\* value in the model and a failed move or insertion leaves the child at
\* its new place.  The forest stays consistent and later calls work.
C18_FailureConfined ==
    /\ [](failed => TreeConsistent)
    /\ [][C18_Failure /\ C18_LaterCalls]_vars

\* C18 witness: with ProxyTag as the proxy class a call has raised, and a
\* later removal of a Tag from the active Document delivered its record.
C18_Witness ==
    /\ proxy_class = "ProxyTag"
    /\ failed
    /\ steps = MaxOps
    /\ op.call = "child_removed"
    /\ error = "none"
    /\ Len(modified["D"]) = 1
    /\ modified["D"][1].type = "removed"

\* The changes an Html received in the last call are the last ones of all
\* it has received.
StreamEndsWithLastCall ==
    \A h \in Html :
       /\ Len(modified[h]) <= Len(stream[h])
       /\ SubSeq(stream[h], Len(stream[h]) - Len(modified[h]) + 1, Len(stream[h]))
             = modified[h]
       /\ Len(stream[h]) <= 2 * steps

\* One call: what an Html has received before stays as it is and in its
\* order, and the changes the call notifies come after it, each one once
\* and at one Html only; they are there when the call has returned.
StreamAppends ==
    /\ \A h \in Html :
          /\ Len(stream'[h]) >= Len(stream[h])
          /\ SubSeq(stream'[h], 1, Len(stream[h])) = stream[h]
          /\ SubSeq(stream'[h], Len(stream[h]) + 1, Len(stream'[h])) = modified'[h]
          /\ modified'[h] \in {<<>>, notified'}
    /\ \A i \in 1..Len(notified') :
          Cardinality({hj \in Html \X (1..Len(notified')) :
                         /\ hj[2] <= Len(modified'[hj[1]])
                         /\ modified'[hj[1]][hj[2]] = notified'[i]})
            = IF root_object(op'.self, parent') \in Html THEN 1 ELSE 0

\* C19: the changes an Html receives form a sequence that only grows at
\* its end; every change a call notifies below an Html root is on that
\* sequence once when the call returns, so the changes are in the order of
\* the calls that caused them.
C19_AppendOnlyInOrder == []StreamEndsWithLastCall /\ [][StreamAppends]_vars

\* C19 witness: two calls in the Document's tree, of different kinds, each
\* delivered its record, and the record of the second call comes second.
C19_Witness ==
    /\ steps = 2
    /\ Len(stream["D"]) = 2
    /\ Len(modified["D"]) = 1
    /\ stream["D"][2] = modified["D"][1]
    /\ stream["D"][1].type # stream["D"][2].type
    /\ op.call = "setattr"

\* C20: every Tag child of an active Tag is active.  The insertion of a Tag
\* into an active parent leaves the child and every Tag below it
\* initialized and active, and the assignment of a new value to an observed
\* attribute that holds a value, on a Tag whose parent is active, notifies
\* one update record, which the Html at the root receives.
C20_ChildrenOfActiveAreActive ==
    /\ \A p \in Tag :
          proxy_is_active[p]
          => \A i \in 1..Len(children[p]) :
                children[p][i] \in Tag => proxy_is_active[children[p][i]]
    /\ OnActiveParent("child_added")
       => \A n \in Subtree(op.child) : proxy_is_active[n] /\ is_initialized[n]
    /\ (/\ Updated
        /\ parent[op.self] # NoNode
        /\ proxy_is_active[parent[op.self]]
        /\ CanUpdate(op.name))
       => /\ notified = <<[id |-> op.self, type |-> "update",
                           name |-> op.name, value |-> op.value]>>
          /\ DeliveredToRoot(op.self)

\* C20 witness: a Tag with a Tag child of its own, neither of them active,
\* was inserted into the active Document; then an attribute of its child
\* was assigned, and the Document received the added record and the update
\* record.
C20_Witness ==
    /\ steps = 2
    /\ Updated
    /\ parent[op.self] \in Tag \ {"D"}
    /\ parent[parent[op.self]] = "D"
    /\ Len(stream["D"]) = 2
    /\ stream["D"][1].type = "added"
    /\ stream["D"][1].value.id = parent[op.self]
    /\ stream["D"][2].type = "update"
    /\ stream["D"][2].id = op.self
    /\ n_activate[op.self] = 1

\* The call being made inserts a Tag into a parent that is not active.
AddToInactive ==
    /\ op'.call = "child_added"
    /\ op'.child \in Tag
    /\ ~proxy_is_active[op'.self]

\* C21 as claimed: the insertion of a Tag into a parent that is not active
\* leaves the initialized and active flags of every node and the state of
\* every proxy as they were, and notifies nothing.
C21_FlagsUnchanged ==
    [][AddToInactive
       => /\ is_initialized' = is_initialized
          /\ proxy_is_active' = proxy_is_active
          /\ pattrs' = pattrs
          /\ notified' = <<>>]_vars

\* C21, amended: the insertion of a Tag into a parent that is not active
\* puts the child in the children list and makes the parent its parent; the
\* child is not rendered and not activated, nothing is called on a proxy,
\* nothing is notified or raised and no attribute changes.  When the parent
\* is initialized and the child is not, the inherited child_added
\* initializes the child and every node below it; otherwise the initialized
\* flags stay as they were.
C21_AddToInactiveParent ==
    [][AddToInactive
       => /\ children' = [children EXCEPT
                            ![op'.self] = InsertBefore(@, op'.before, op'.child)]
          /\ parent' = [parent EXCEPT ![op'.child] = op'.self]
          /\ proxy_is_active' = proxy_is_active
          /\ activated' = {}
          /\ pattrs' = pattrs
          /\ attrs' = attrs
          /\ trace' = <<>>
          /\ notified' = <<>>
          /\ \A h \in Html : modified'[h] = <<>>
          /\ error' = "none"
          /\ IF is_initialized[op'.self] /\ ~is_initialized[op'.child]
             THEN /\ initialized' = {n \in Object : n = op'.child
                                        \/ op'.child \in Ancestors(n, parent')}
                  /\ \A n \in Object :
                        is_initialized'[n] = (is_initialized[n] \/ n \in initialized')
             ELSE /\ initialized' = {}
                  /\ is_initialized' = is_initialized]_vars

\* C21 witness: a Tag that was not initialized was inserted into a parent
\* that is initialized and not active: the child is initialized, not active,
\* and nothing was notified.
C21_Witness ==
    /\ op.call = "child_added"
    /\ op.child \in Tag
    /\ ~proxy_is_active[op.self]
    /\ is_initialized[op.self]
    /\ op.child \in initialized
    /\ ~proxy_is_active[op.child]
    /\ notified = <<>>
    /\ error = "none"

\* C22: an assignment of a new value to any attribute an active Tag's type
\* declares, which holds a value, with a proxy that has set_attribute, makes exactly one call on
\* the proxy and notifies exactly one update record with the attribute's
\* name and the new value.  The code does not do this for dir of Bdo, which
\* has no @observe: _update_proxy is never called for it.
C22_EveryDeclaredObserved ==
    (/\ Updated
     /\ op.name \in DeclaredNames(op.self)
     /\ proxy_is_active[op.self]
     /\ proxy_class = "WebComponent")
    => /\ Cardinality(ProxyCalls) = 1
       /\ notified = <<[id |-> op.self, type |-> "update",
                        name |-> op.name, value |-> op.value]>>

\* The call being made is prepare or render with keyword arguments.
WithKwargs ==
    /\ op'.call \in {"prepare", "render"}
    /\ op'.kwargs # <<>>

\* The update records of the keyword arguments that name an attribute which
\* holds a value, according to `held`, and give it another one, in the
\* order of the arguments.
RECURSIVE ChangedRecords(_, _, _)
ChangedRecords(self, kwargs, held) ==
    IF kwargs = <<>>
    THEN <<>>
    ELSE (IF held[kwargs[1][1]] /\ attrs[self][kwargs[1][1]] # kwargs[1][2]
          THEN <<[id |-> self, type |-> "update",
                  name |-> kwargs[1][1], value |-> kwargs[1][2]]>>
          ELSE <<>>) \o ChangedRecords(self, Tail(kwargs), held)

\* C23 as claimed, for the active Tag: each attribute given whose value
\* changes notifies one update record, whether it held a value or not.
C23_EachChangeOneRecord ==
    [][(WithKwargs /\ proxy_is_active[op'.self] /\ proxy_class = "WebComponent")
       => notified' = ChangedRecords(op'.self, op'.kwargs,
                                     [k \in ObservedNames |-> TRUE])]_vars

\* C23, amended: prepare(**kwargs) and render(**kwargs) assign the
\* attributes given before they look at the initialized and active flags.
\* On a Tag that is not active the assignments notify nothing and call
\* nothing on the proxy, the Tag holds the values given, and the activation
\* that follows hands them to the proxy.  On a Tag that is active, with a
\* proxy that has set_attribute, each attribute given that holds a value and
\* is given another one notifies exactly one update record, in the order of
\* the arguments, and the proxy takes the value; an attribute given the
\* value it has, or one that holds no value, notifies none; nothing is
\* activated.
C23_KwargsBeforeActivation ==
    [][WithKwargs
       => /\ ~proxy_is_active[op'.self]
             => /\ notified' = <<>>
                /\ trace' = <<>>
                /\ \A h \in Html : modified'[h] = <<>>
                /\ \A i \in 1..Len(op'.kwargs) :
                      attrs'[op'.self][op'.kwargs[i][1]] = op'.kwargs[i][2]
                /\ op'.self \in activated'
                /\ proxy_is_active'[op'.self]
                /\ proxy_class = "WebComponent"
                   => pattrs'[op'.self] = attrs'[op'.self]
          /\ (proxy_is_active[op'.self] /\ proxy_class = "WebComponent")
             => /\ notified' = ChangedRecords(op'.self, op'.kwargs,
                                              has_value[op'.self])
                /\ Len(trace') = 2 * Len(notified')
                /\ \A i \in 1..Len(op'.kwargs) :
                      /\ attrs'[op'.self][op'.kwargs[i][1]] = op'.kwargs[i][2]
                      /\ has_value'[op'.self][op'.kwargs[i][1]]
                      /\ (/\ has_value[op'.self][op'.kwargs[i][1]]
                          /\ attrs[op'.self][op'.kwargs[i][1]] # op'.kwargs[i][2])
                         => pattrs'[op'.self][op'.kwargs[i][1]] = op'.kwargs[i][2]
                /\ activated' = {}
                /\ error' = "none"
          /\ (/\ proxy_is_active[op'.self]
              /\ proxy_class = "ProxyTag"
              /\ \A i \in 1..Len(op'.kwargs) : ~has_value[op'.self][op'.kwargs[i][1]])
             => /\ notified' = <<>>
                /\ trace' = <<>>
                /\ error' \in {"none", RenderError(proxy_class)}
                /\ op'.call = "prepare" => error' = "none"]_vars

\* C23 witness: render(text, alt) on an active Tag below the Document whose
\* text had the value given already: the one record, for alt, was delivered.
C23_Witness ==
    /\ op.call = "render"
    /\ op.was_active
    /\ Len(op.kwargs) = 2
    /\ op.self \notin Html
    /\ Len(notified) = 1
    /\ notified[1].name = "alt"
    /\ modified["D"] = notified
    /\ error = "none"

\* The call being made is a render of a Tag in whose tree no Tag is active.
FirstRender ==
    /\ op'.call = "render"
    /\ \A t \in Tag \cap InitializeSet(root_object(op'.self, parent), children) :
          ~proxy_is_active[t]

\* C24: a render of a Tag in whose tree no Tag is active activates the Tag
\* and every Tag below it, each one once, and hands no change to
\* _notify_modified: no Html receives a record, however many Tags and
\* children the tree has; rendering the root leaves every Tag of the tree
\* active.
C24_FirstRenderSilent ==
    [][FirstRender
       => /\ notified' = <<>>
          /\ trace' = <<>>
          /\ \A h \in Html : modified'[h] = <<>>
          /\ stream' = stream
          /\ activated' = ActivateSet(op'.self, children)
          /\ \A t \in activated' :
                proxy_is_active'[t] /\ n_activate'[t] = n_activate[t] + 1
          /\ parent[op'.self] = NoNode
             => \A t \in Tag \cap InitializeSet(op'.self, children) :
                   proxy_is_active'[t]
          /\ RenderError(proxy_class) = "none"
             => error' = "none" /\ Len(op'.result) = 1]_vars

\* C24 witness: the Document with three Tags below it, none active, was
\* rendered: the four Tags are active, the markup was returned and the
\* Document has received nothing.
C24_Witness ==
    /\ op.call = "render"
    /\ op.self = "D"
    /\ ~op.was_active
    /\ activated = Tag \ {"C"} \/ activated = Tag
    /\ \A t \in Tag : n_activate[t] <= 1
    /\ Len(op.result) = 1
    /\ error = "none"
    /\ notified = <<>>
    /\ stream["D"] = <<>>

\* The types of the change records _notify_modified is called with.
RecordTypes == {"update", "added", "moved", "removed"}

\* C25: of the changes atom sends to _update_proxy only those of type
\* 'update' pass its test.  The deletion of an attribute, which sends a
\* change of type 'delete', and the read of or the assignment to an
\* attribute that holds no value, which send one of type 'create', call
\* nothing on the proxy, notify nothing and raise nothing, whatever the
\* proxy class and whether the Tag is active or not: no Html receives a
\* record.  After the deletion the Tag has the default value and holds
\* none.  No record an Html has ever received has another type than update,
\* added, moved or removed, and only the update records name an attribute.
C25_OnlyUpdateHandled ==
    /\ (op.call \in {"delattr", "getattr"} \/ Created)
       => /\ trace = <<>>
          /\ notified = <<>>
          /\ \A h \in Html : modified[h] = <<>>
          /\ error = "none"
    /\ op.call = "delattr"
       => /\ attrs[op.self][op.name] = DefaultAttrs(op.self)[op.name]
          /\ ~has_value[op.self][op.name]
    /\ op.call = "getattr"
       => /\ attrs[op.self][op.name] = DefaultAttrs(op.self)[op.name]
          /\ has_value[op.self][op.name]
    /\ \A h \in Html : \A i \in 1..Len(stream[h]) :
          /\ stream[h][i].type \in RecordTypes
          /\ stream[h][i].type = "update" <=> stream[h][i].name # "children"

\* C25 witness: the text of an active Tag below the Document, assigned
\* before and held by the proxy, was deleted: the Document has the record of
\* the assignment and no other, and the proxy still holds the text.
C25_Witness ==
    /\ op.call = "delattr"
    /\ op.name = "text"
    /\ op.type = "delete"
    /\ op.value = "x"
    /\ op.self \notin Html
    /\ proxy_is_active[op.self]
    /\ proxy_class = "WebComponent"
    /\ attrs[op.self]["text"] = ""
    /\ pattrs[op.self]["text"] = "x"
    /\ Len(stream["D"]) = 1
    /\ stream["D"][1].type = "update"
    /\ modified["D"] = <<>>

====
